---- MODULE Spec2Model ----
(***************************************************************************)
(* A model of the monthly report pipeline of servicenow-pdf-generator:     *)
(* src/main.py (main, verify_all_tickets_found), src/monday_client.py      *)
(* (MondayClient.graphql under tenacity.retry), src/files.py               *)
(* (download_asset, dedupe_assets, sanitize_filename), src/convert.py     *)
(* (to_pdf), src/pdf_utils.py (generate_summary_page, merge_pdfs) and the  *)
(* counts of src/excel_utils.py (_create_summary_sheet).                   *)
(*                                                                         *)
(* Texts (status labels, dates, the month argument, attachment names and   *)
(* extensions) are sequences of one-character strings, so that lower(),    *)
(* the substring test, lstrip() and sanitize_filename() are computed       *)
(* character by character, as the code computes them.                      *)
(***************************************************************************)
EXTENDS Naturals, Integers, Sequences, FiniteSets, TLC

(***************************************************************************)
(* Bounds of the model.                                                    *)
(***************************************************************************)
\* the most items the server returns over all the pages of one retrieval
MaxFetched == 3
\* the largest run.max_items value of the configuration (0: not set)
MaxItemsCfg == 1
\* the most items the server returns to the verification pass
MaxVerifyFetched == 1
\* the most items of a list indexed on its own
MaxIndexed == 3

(***************************************************************************)
(* Text helpers: str.lower, the `in` substring test, str.lstrip.           *)
(***************************************************************************)
UpperChars == <<"A","B","C","D","E","F","G","H","I","J","K","L","M",
                "N","O","P","Q","R","S","T","U","V","W","X","Y","Z">>
LowerChars == <<"a","b","c","d","e","f","g","h","i","j","k","l","m",
                "n","o","p","q","r","s","t","u","v","w","x","y","z">>
DigitChars == {"0","1","2","3","4","5","6","7","8","9"}

Range(s) == {s[i] : i \in DOMAIN s}

LowerChar(c) ==
    IF \E i \in DOMAIN UpperChars : UpperChars[i] = c
    THEN LowerChars[CHOOSE i \in DOMAIN UpperChars : UpperChars[i] = c]
    ELSE c

\* str.lower()
Lower(s) == [i \in DOMAIN s |-> LowerChar(s[i])]

\* `sub in s` for two strings
Contains(sub, s) ==
    \E i \in 1..(Len(s) + 1) :
        /\ i + Len(sub) - 1 <= Len(s)
        /\ SubSeq(s, i, i + Len(sub) - 1) = sub

\* str.lstrip(ch)
RECURSIVE LStrip(_, _)
LStrip(s, ch) == IF s # <<>> /\ Head(s) = ch THEN LStrip(Tail(s), ch) ELSE s

\* truthiness of an Optional[str]: None and "" are both false (None is modelled
\* as the empty text)
Truthy(s) == s # <<>>

(***************************************************************************)
(* The configuration and the command line.                                 *)
(***************************************************************************)
\* config['board']['status_label_required']
StatusLabelRequired == <<"D","o","n","e">>
\* args.month
Month == <<"2","0","2","4","-","0","6">>

(***************************************************************************)
(* The items the server may return.                                        *)
(***************************************************************************)
Txt_done     == <<"D","o","n","e">>
Txt_doneLow  == <<"d","o","n","e">>
Txt_open     == <<"O","p","e","n">>
Date_june3   == <<"2","0","2","4","-","0","6","-","0","3">>
Date_june20  == <<"2","0","2","4","-","0","6","-","2","0">>
Date_july1   == <<"2","0","2","4","-","0","7","-","0","1">>
Name_report  == <<"r",".","p","d","f">>
Name_photo   == <<"p",".","j","p","g">>
Name_notes   == <<"n"," ","1",".","d","o","c","x">>
Name_notes_  == <<"n","_","1",".","d","o","c","x">>
Ext_pdf      == <<"p","d","f">>
Ext_jpg      == <<"J","P","G">>
Ext_docx     == <<"D","o","c","x">>

Asset(id, name, ext) == [id |-> id, name |-> name, file_extension |-> ext]

Item(id, name, status, date, assets) ==
    [id |-> id, name |-> name, status |-> status, date |-> date, assets |-> assets]

\* A and C share r.pdf (under two asset ids); B has one asset attached twice;
\* D has two assets of one name under two ids; E is not resolved, F is of
\* another month, G has no attachment.
ItemA == Item("1", "A", Txt_done, Date_june3,
              <<Asset(<<"1","1">>, Name_report, Ext_pdf)>>)
ItemB == Item("2", "B", Txt_doneLow, Date_june20,
              <<Asset(<<"2","1">>, Name_notes, Ext_docx),
                Asset(<<"2","1">>, Name_notes, Ext_docx)>>)
ItemC == Item("3", "C", Txt_done, Date_june20,
              <<Asset(<<"3","1">>, Name_report, Ext_pdf)>>)
ItemD == Item("4", "D", Txt_done, Date_june3,
              <<Asset(<<"4","1">>, Name_photo, Ext_jpg),
                Asset(<<"4","2">>, Name_photo, Ext_jpg)>>)
ItemE == Item("5", "E", Txt_open, Date_june3,
              <<Asset(<<"5","1">>, Name_photo, Ext_jpg)>>)
ItemF == Item("6", "F", Txt_done, Date_july1,
              <<Asset(<<"6","1">>, Name_report, Ext_pdf)>>)
ItemG == Item("7", "G", Txt_done, Date_june3, <<>>)
\* two attachments whose names differ and are alike once sanitized
ItemH == Item("8", "H", Txt_done, Date_june3,
              <<Asset(<<"8","1">>, Name_notes, Ext_docx),
                Asset(<<"8","2">>, Name_notes_, Ext_docx)>>)

\* the items of the board of a run, and the items of any board
ServerItems == {ItemA, ItemB, ItemC, ItemE, ItemG}
AnyItems == ServerItems \cup {ItemD, ItemF, ItemH}

\* the sequences of at most n items of S
ItemSeqs(S, n) == UNION {[1..k -> S] : k \in 0..n}

NoRepeat(seq) == \A i, j \in DOMAIN seq : seq[i] = seq[j] => i = j

\* the pages of at most n items the server may return: within one page no
\* item comes twice
Pages(n) == {page \in ItemSeqs(ServerItems, n) : NoRepeat(page)}

\* the label sets of the status column (settings_str)
LabelSets == {{Txt_doneLow, Txt_open}, {Txt_open}}


(***************************************************************************)
(* MondayClient.graphql under tenacity.retry.                              *)
(***************************************************************************)
\* what one attempt of graphql does: return data, or raise from httpx.post
\* (a timeout, a connection failure), from raise_for_status (an HTTP error
\* status), or because the response holds an "errors" field
Outcomes == {"ok", "http_status_error", "timeout", "connect_error", "errors_field"}

\* stop=tenacity.stop_after_attempt(5)
StopAfterAttempt == 5

\* a retry predicate that retries on every exception
RetryIf_any_exception(o) == o # "ok"

\* retry=tenacity.retry_if_exception_type(httpx.HTTPStatusError)
RetryIf(o) == o = "http_status_error"

\* the exception an attempt's outcome raises
ExceptionOf(o) ==
    CASE o = "http_status_error" -> "HTTPStatusError"
      [] o = "timeout"           -> "TimeoutException"
      [] o = "connect_error"     -> "ConnectError"
      [] o = "errors_field"      -> "Exception"
      [] OTHER                   -> "none"

\* tenacity after attempt number n ended with outcome o: the call returns,
\* is attempted again, or raises (the exception itself when it is not one to
\* retry, RetryError when the attempts are used up)
Tenacity(n, o) ==
    IF o = "ok" THEN [do |-> "return", error |-> "none"]
    ELSE IF ~RetryIf(o) THEN [do |-> "raise", error |-> ExceptionOf(o)]
    ELSE IF n >= StopAfterAttempt THEN [do |-> "raise", error |-> "RetryError"]
    ELSE [do |-> "retry", error |-> "none"]

(***************************************************************************)
(* filters.get_status_index and the client-side filter of main.            *)
(***************************************************************************)
\* get_status_index: whether some label of the column equals the required one,
\* case-insensitively (otherwise ValueError)
StatusIndexFound(labels) ==
    \E l \in labels : Lower(l) = Lower(StatusLabelRequired)

\* a comparison of the status text that minds the case
StatusMatches_case_sensitive(item) ==
    Truthy(item.status) /\ item.status = StatusLabelRequired

\* main.py line 112
StatusMatches(item) ==
    Truthy(item.status) /\ Lower(item.status) = Lower(StatusLabelRequired)

\* main.py line 114
MonthMatches(item) == Truthy(item.date) /\ Contains(Month, item.date)

\* main.py lines 116-117
HasAssets(item) == Len(item.assets) > 0

\* main.py line 123: the max_items limit, in dry-run mode only
LimitReached(acc, dryRun, maxItems) ==
    dryRun /\ maxItems # 0 /\ Len(acc) >= maxItems

\* main.py lines 101-124: the loop over all_items from position i on, acc
\* being filtered_items so far
RECURSIVE FilterFrom(_, _, _, _, _)
FilterFrom(items, i, acc, dryRun, maxItems) ==
    IF i > Len(items) THEN acc
    ELSE IF StatusMatches(items[i]) /\ MonthMatches(items[i])
         THEN LET acc2 == IF HasAssets(items[i]) THEN Append(acc, items[i]) ELSE acc
              IN  IF LimitReached(acc2, dryRun, maxItems) THEN acc2
                  ELSE FilterFrom(items, i + 1, acc2, dryRun, maxItems)
         ELSE FilterFrom(items, i + 1, acc, dryRun, maxItems)

FilterItems(items, dryRun, maxItems) == FilterFrom(items, 1, <<>>, dryRun, maxItems)

(***************************************************************************)
(* files.dedupe_assets and the attachment index of main.                   *)
(***************************************************************************)
\* a key of the name alone
DedupeKey_name_only(asset) == <<asset.name>>

\* the key of dedupe_assets
DedupeKey(asset) == <<asset.id, asset.name>>

RECURSIVE DedupeFrom(_, _, _)
DedupeFrom(assets, i, unique) ==
    IF i > Len(assets) THEN unique
    ELSE IF \E j \in DOMAIN unique : DedupeKey(unique[j]) = DedupeKey(assets[i])
         THEN DedupeFrom(assets, i + 1, unique)
         ELSE DedupeFrom(assets, i + 1, Append(unique, assets[i]))

\* no suppression of duplicates at all
dedupe_assets_keep_all(assets) == assets

dedupe_assets(assets) == DedupeFrom(assets, 1, <<>>)

\* the TicketRow of an item (close_date is not modelled)
TicketRow(item) ==
    [item_id |-> item.id, item_name |-> item.name, open_date |-> item.date,
     attachments |-> dedupe_assets(item.assets)]

\* attachment_map is a dict in insertion order: a sequence of entries
\* [name, asset, tickets], one per key
HasKey(map, name) == \E k \in DOMAIN map : map[k].name = name

\* a registration that never finds the name in the index: one entry per reference
Register_per_reference(map, asset, itemName) ==
    Append(map, [name |-> asset.name, asset |-> asset, tickets |-> <<itemName>>])

\* main.py lines 142-145 for one asset of the item named itemName
Register(map, asset, itemName) ==
    LET m == IF HasKey(map, asset.name) THEN map
             ELSE Append(map, [name |-> asset.name, asset |-> asset, tickets |-> <<>>])
    IN  [k \in DOMAIN m |->
            IF m[k].name = asset.name
            THEN [m[k] EXCEPT !.tickets = Append(@, itemName)]
            ELSE m[k]]

\* main.py lines 141-145: the assets of one item, from position i on
RECURSIVE RegisterAll(_, _, _, _)
RegisterAll(map, assets, i, itemName) ==
    IF i > Len(assets) THEN map
    ELSE RegisterAll(Register(map, assets[i], itemName), assets, i + 1, itemName)

\* main.py lines 129-145: the index of the items from position i on
RECURSIVE IndexFrom(_, _, _)
IndexFrom(items, i, map) ==
    IF i > Len(items) THEN map
    ELSE IndexFrom(items, i + 1,
                   RegisterAll(map, dedupe_assets(items[i].assets), 1, items[i].name))

BuildAttachmentMap(items) == IndexFrom(items, 1, <<>>)

\* main.py lines 147-153
BuildTicketRows(items) == [i \in DOMAIN items |-> TicketRow(items[i])]


(***************************************************************************)
(* The file system: a set of [path, content].  A path is <<item directory, *)
(* subdirectory, file name>>, the file name a text; no path (None) is <<>>.*)
(***************************************************************************)
None == <<>>

Exists(fs, path) == \E f \in fs : f.path = path

\* open(path, "wb").write(...): the file is created or replaced
WriteFile(fs, path, content) ==
    {f \in fs : f.path # path} \cup {[path |-> path, content |-> content]}

ContentOf(fs, path) == (CHOOSE f \in fs : f.path = path).content

\* str.isalnum() of one character
IsAlnum(c) ==
    c \in Range(UpperChars) \cup Range(LowerChars) \cup DigitChars

\* files.sanitize_filename
sanitize_filename(name) ==
    [i \in DOMAIN name |-> IF IsAlnum(name[i]) \/ name[i] \in {"-", "_"}
                           THEN name[i] ELSE "_"]

\* a file name made of the sanitized name and the extension alone
DownloadFilename_without_id(asset) ==
    sanitize_filename(asset.name) \o <<".">> \o asset.file_extension

\* files.py line 11: f"{asset.id}-{sanitize_filename(asset.name)}.{asset.file_extension}"
DownloadFilename(asset) ==
    asset.id \o <<"-">> \o sanitize_filename(asset.name) \o <<".">> \o asset.file_extension

\* os.path.join(dir, file), dir being <<item directory, subdirectory>>
JoinPath(dir, file) == <<dir[1], dir[2], file>>

\* os.path.basename
Basename(path) == path[3]

\* os.path.splitext(file)[0]: the text before the last dot (a dot that only
\* leads the name is no extension)
LastDot(file) ==
    IF \E i \in DOMAIN file : file[i] = "."
    THEN CHOOSE i \in DOMAIN file :
            file[i] = "." /\ \A j \in DOMAIN file : file[j] = "." => j <= i
    ELSE 0

SplitextRoot(file) ==
    IF LastDot(file) > 0 /\ \E j \in 1..(LastDot(file) - 1) : file[j] # "."
    THEN SubSeq(file, 1, LastDot(file) - 1)
    ELSE file

(***************************************************************************)
(* files.download_asset.  net is what the HTTP request does when one is    *)
(* made: "ok" or "fail" (any exception of httpx.get, raise_for_status or   *)
(* the write).  The result: the path returned, the file system after, the  *)
(* events logged and whether a request was made.                           *)
(***************************************************************************)
Event(action, status, subject) ==
    [action |-> action, status |-> status, subject |-> subject]

\* a download that does not look whether the file is there already
download_asset_always_fetch(asset, out_dir, fs, net) ==
    LET path == JoinPath(out_dir, DownloadFilename(asset))
    IN  IF net = "ok"
        THEN [path |-> path, fs |-> WriteFile(fs, path, "downloaded"),
              events |-> <<Event("download", "success", asset.id)>>,
              requested |-> TRUE]
        ELSE [path |-> None, fs |-> fs,
              events |-> <<Event("download", "fail", asset.id)>>,
              requested |-> TRUE]

download_asset(asset, out_dir, fs, net) ==
    LET path == JoinPath(out_dir, DownloadFilename(asset))
    IN  IF Exists(fs, path)
        THEN [path |-> path, fs |-> fs, events |-> <<>>, requested |-> FALSE]
        ELSE IF net = "ok"
        THEN [path |-> path, fs |-> WriteFile(fs, path, "downloaded"),
              events |-> <<Event("download", "success", asset.id)>>,
              requested |-> TRUE]
        ELSE [path |-> None, fs |-> fs,
              events |-> <<Event("download", "fail", asset.id)>>,
              requested |-> TRUE]

(***************************************************************************)
(* convert.to_pdf.  The chosen strategy ends "ok" or raises: a failed      *)
(* process (CalledProcessError), the 60 s timeout (TimeoutExpired), a      *)
(* missing tool (FileNotFoundError) for the two external converters, an    *)
(* error of shutil.copy or img2pdf for the two library strategies.  An     *)
(* external converter is trusted on its exit status alone (check=True):    *)
(* it may exit with status 0 and have written nothing ("no_output"), and   *)
(* to_pdf does not look at path_pdf before it returns it.  Nothing makes   *)
(* out_dir inside to_pdf: where it does not exist (ds, the directories     *)
(* made, lacks it) every write of to_pdf itself fails, the one of the      *)
(* except clause included, which no handler covers.                        *)
(***************************************************************************)
OfficeExts == {<<"d","o","c","x">>, <<"x","l","s","x">>, <<"p","p","t","x">>,
               <<"c","s","v">>, <<"t","x","t">>}
ImageExts  == {<<"p","n","g">>, <<"j","p","g">>, <<"j","p","e","g">>,
               <<"w","e","b","p">>}

\* convert.py line 29
NormalizeExt(ext) == LStrip(Lower(ext), ".")

\* convert.py lines 32-45: the branch taken
Strategy(ext, prefer_libreoffice, html_enabled) ==
    CASE ext = <<"p","d","f">>                       -> "copy"
      [] ext \in OfficeExts /\ prefer_libreoffice    -> "libreoffice"
      [] ext \in ImageExts                           -> "img2pdf"
      [] ext = <<"h","t","m","l">> /\ html_enabled   -> "wkhtmltopdf"
      [] OTHER                                       -> "placeholder"

\* the strategies whose output to_pdf hands to an external process
External == {"libreoffice", "wkhtmltopdf"}

\* what a strategy may end with
StrategyOutcomes(strategy) ==
    CASE strategy \in External
            -> {"ok", "no_output", "process_failure", "timeout", "missing_tool"}
      [] strategy \in {"copy", "img2pdf"} -> {"ok", "library_error"}
      [] OTHER -> {"ok"}

\* the content the strategy writes at path_pdf when it ends "ok"
StrategyContent(strategy) ==
    CASE strategy = "copy"        -> "copied"
      [] strategy = "placeholder" -> "placeholder_unsupported"
      [] OTHER                    -> "converted"

\* convert.py line 30
PdfPath(path_in, out_dir) ==
    JoinPath(out_dir, SplitextRoot(Basename(path_in)) \o <<".","p","d","f">>)

\* convert.py lines 24-54
to_pdf(path_in, ext, out_dir, prefer_libreoffice, html_enabled, fs, ds, outcome) ==
    IF path_in = None \/ ~Exists(fs, path_in)
    THEN [path |-> None, fs |-> fs, raised |-> FALSE,
          events |-> <<Event("convert", "fail", None)>>]
    ELSE LET strategy == Strategy(NormalizeExt(ext), prefer_libreoffice, html_enabled)
             path_pdf == PdfPath(path_in, out_dir)
         IN  IF out_dir \notin ds /\ (strategy \notin External \/
                                      outcome \notin {"ok", "no_output"})
             THEN [path |-> None, raised |-> TRUE, fs |-> fs,
                   events |-> <<Event("convert", "fail", Basename(path_in))>>]
             ELSE IF outcome = "ok"
             THEN [path |-> path_pdf, raised |-> FALSE,
                   fs |-> WriteFile(fs, path_pdf, StrategyContent(strategy)),
                   events |-> <<Event("convert", "success", Basename(path_in))>>]
             ELSE IF outcome = "no_output"
             THEN [path |-> path_pdf, raised |-> FALSE, fs |-> fs,
                   events |-> <<Event("convert", "success", Basename(path_in))>>]
             ELSE [path |-> path_pdf, raised |-> FALSE,
                   fs |-> WriteFile(fs, path_pdf, "placeholder_failed"),
                   events |-> <<Event("convert", "fail", Basename(path_in))>>]


(***************************************************************************)
(* The state of one run of main.                                           *)
(***************************************************************************)
VARIABLES
    pc,              \* where main is
    dry_run,         \* args.dry_run
    max_items,       \* config['run']['max_items'], 0 when not set
    attempt,         \* attempts made by the graphql call in flight or just failed
    last_outcome,    \* how the last attempt of that call ended
    error,           \* the exception that ended the run, "none" otherwise
    all_items,       \* main.py line 93
    filtered_items,  \* main.py line 101
    ticket_rows,     \* main.py line 126
    attachment_map,  \* main.py line 127
    idx,             \* position of the loop of main.py line 179
    item_pdfs,       \* main.py line 174
    files,           \* the files on disk
    dirs,            \* the directories main has made
    events,          \* what log_event has printed
    calls,           \* the calls of download_asset and to_pdf made so far
    v_items,         \* all_items of verify_all_tickets_found
    missing,         \* the result of verify_all_tickets_found
    conv,            \* a single call of to_pdf: its arguments and its result
    dl,              \* calls of download_asset for one attachment: arguments, results
    merged,          \* the documents merge_pdfs appended to the output, in order
    summary_stats,   \* the counts generate_summary_page has drawn
    workbook_stats,  \* the counts of the workbook's Summary sheet
    layout           \* generate_summary_page at work: where it draws the next line

vars == <<pc, dry_run, max_items, attempt, last_outcome, error, all_items,
          filtered_items, ticket_rows, attachment_map, idx,
          item_pdfs, files, dirs, events, calls, v_items, missing, conv, dl, layout,
          merged, summary_stats, workbook_stats, layout>>

clientVars == <<attempt, last_outcome>>
indexVars == <<filtered_items, ticket_rows, attachment_map>>
outputVars == <<idx, item_pdfs, files, dirs, events, calls>>
verifyVars == <<v_items, missing>>
reportVars == <<merged, summary_stats, workbook_stats>>

NoConv == [stage |-> "none"]
NoDownload == [stage |-> "none"]
NoLayout == [stage |-> "none"]
\* no count drawn or written yet
NoStats == [written |-> FALSE]

\* the download directory before the run: empty, or holding the file a former
\* run downloaded for the attachment of item A
ItemDir(item_id) == <<item_id, "">>
ConvertedDir(item_id) == <<item_id, "converted">>
FormerDownload ==
    [path |-> JoinPath(ItemDir(ItemA.id), DownloadFilename(ItemA.assets[1])),
     content |-> "downloaded"]
InitialFiles == {{}, {FormerDownload}}

Init ==
    /\ pc = "get_status_column"
    /\ dry_run \in BOOLEAN
    /\ max_items \in 0..MaxItemsCfg
    /\ attempt = 0
    /\ last_outcome = "none"
    /\ error = "none"
    /\ all_items = <<>>
    /\ filtered_items = <<>>
    /\ ticket_rows = <<>>
    /\ attachment_map = <<>>
    /\ idx = 1
    /\ item_pdfs = <<>>
    /\ files \in InitialFiles
    /\ dirs = {}
    /\ events = <<>>
    /\ calls = <<>>
    /\ v_items = <<>>
    /\ missing = {}
    /\ conv = NoConv
    /\ dl = NoDownload
    /\ merged = <<>>
    /\ summary_stats = NoStats
    /\ workbook_stats = NoStats
    /\ layout = NoLayout

(***************************************************************************)
(* One attempt of the graphql call in flight.                              *)
(***************************************************************************)
\* an exception leaves main: the process ends, its locals are gone; the files,
\* the log and the failed call's last attempt remain
Raise(e) ==
    /\ pc' = "aborted"
    /\ error' = e
    /\ all_items' = <<>>
    /\ filtered_items' = <<>>
    /\ ticket_rows' = <<>>
    /\ attachment_map' = <<>>
    /\ idx' = 1
    /\ item_pdfs' = <<>>
    /\ v_items' = <<>>
    /\ missing' = {}

locals == <<all_items, filtered_items, ticket_rows, attachment_map, idx,
            item_pdfs, v_items, missing>>
disk == <<files, dirs, events, calls>>

\* the attempt fails: tenacity attempts again, or the exception leaves main
AttemptFails(o) ==
    /\ Tenacity(attempt + 1, o).do # "return"
    /\ attempt' = attempt + 1
    /\ last_outcome' = o
    /\ IF Tenacity(attempt + 1, o).do = "retry"
       THEN UNCHANGED <<pc, error, locals>>
       ELSE Raise(Tenacity(attempt + 1, o).error)

\* the attempt returns the data
AttemptReturns(o) ==
    /\ Tenacity(attempt + 1, o).do = "return"
    /\ attempt' = 0
    /\ last_outcome' = "none"

\* main.py lines 86-88: get_status_column, then get_status_index
GetStatusColumn ==
    /\ pc = "get_status_column"
    /\ \E o \in Outcomes :
        \/ AttemptFails(o)
        \/ /\ AttemptReturns(o)
           /\ \E labels \in LabelSets :
                IF StatusIndexFound(labels)
                THEN pc' = "get_items_page" /\ UNCHANGED <<error, locals>>
                ELSE Raise("ValueError")
    /\ UNCHANGED <<dry_run, max_items, disk, conv, dl, layout, reportVars>>

\* main.py lines 90-93: the first page
GetItemsPage ==
    /\ pc = "get_items_page"
    /\ \E o \in Outcomes :
        \/ AttemptFails(o)
        \/ /\ AttemptReturns(o)
           /\ \E page \in Pages(MaxFetched), cursor \in BOOLEAN :
                /\ all_items' = page
                /\ pc' = IF cursor THEN "next_items_page" ELSE "filter"
           /\ UNCHANGED <<error, filtered_items, ticket_rows, attachment_map,
                          idx, item_pdfs, v_items, missing>>
    /\ UNCHANGED <<dry_run, max_items, disk, conv, dl, layout, reportVars>>

\* main.py lines 94-98: one turn of the loop
NextItemsPage ==
    /\ pc = "next_items_page"
    /\ \E o \in Outcomes :
        \/ AttemptFails(o)
        \/ /\ AttemptReturns(o)
           /\ \E page \in Pages(MaxFetched - Len(all_items)), cursor \in BOOLEAN :
                /\ all_items' = all_items \o page
                /\ pc' = IF cursor THEN "next_items_page" ELSE "filter"
           /\ UNCHANGED <<error, filtered_items, ticket_rows, attachment_map,
                          idx, item_pdfs, v_items, missing>>
    /\ UNCHANGED <<dry_run, max_items, disk, conv, dl, layout, reportVars>>

\* main.py lines 100-124
Filter ==
    /\ pc = "filter"
    /\ filtered_items' = FilterItems(all_items, dry_run, max_items)
    /\ pc' = "index"
    /\ UNCHANGED <<dry_run, max_items, clientVars, error, all_items,
                   ticket_rows, attachment_map, outputVars, verifyVars, conv, dl, layout, reportVars>>

\* an index after which main goes on to the downloads in a dry run too
Index_ignoring_dry_run ==
    /\ pc = "index"
    /\ ticket_rows' = BuildTicketRows(filtered_items)
    /\ attachment_map' = BuildAttachmentMap(filtered_items)
    /\ pc' = "process"
    /\ UNCHANGED <<dry_run, max_items, clientVars, error, all_items,
                   filtered_items, outputVars, verifyVars, conv, dl, layout, reportVars>>

\* main.py lines 126-155
Index ==
    /\ pc = "index"
    /\ ticket_rows' = BuildTicketRows(filtered_items)
    /\ attachment_map' = BuildAttachmentMap(filtered_items)
    /\ pc' = IF dry_run THEN "dry_run" ELSE "process"
    /\ UNCHANGED <<dry_run, max_items, clientVars, error, all_items,
                   filtered_items, outputVars, verifyVars, conv, dl, layout, reportVars>>

(***************************************************************************)
(* The report: shared attachments, downloads and conversions, summary,     *)
(* merge, workbook.                                                        *)
(***************************************************************************)
\* main.py lines 160 and 232-234, pdf_utils.py line 51: the entries reported
\* as shared
IsShared(entry) == Len(entry.tickets) > 1
SharedAttachments(map) == SelectSeq(map, IsShared)

\* main.py lines 155-168: the dry-run listing
DryRun ==
    /\ pc = "dry_run"
    /\ pc' = "verify_first"
    /\ UNCHANGED <<dry_run, max_items, clientVars, error, all_items,
                   indexVars, outputVars, verifyVars, conv, dl, layout, reportVars>>

\* main.py line 181: the first ticket that has an attachment of this name
FirstTicket(rows, asset) ==
    rows[CHOOSE i \in DOMAIN rows :
            /\ \E k \in DOMAIN rows[i].attachments : rows[i].attachments[k].name = asset.name
            /\ \A j \in 1..(i - 1) :
                 \A k \in DOMAIN rows[j].attachments : rows[j].attachments[k].name # asset.name]

Call(fn, asset) == [fn |-> fn, name |-> asset.name]

\* main.py lines 188-195: what follows the download d of asset, the chosen
\* conversion strategy ending with outcome o
AfterDownload(asset, d, dir, ds, o) ==
    IF d.path # None
    THEN LET c == to_pdf(d.path, asset.file_extension, dir, TRUE, FALSE, d.fs, ds, o)
         IN  [fs |-> c.fs,
              calls |-> <<Call("download_asset", asset), Call("to_pdf", asset)>>,
              pdfs |-> IF c.path # None /\ Exists(c.fs, c.path) THEN <<c.path>> ELSE <<>>,
              events |-> d.events \o c.events \o
                  <<IF c.path # None /\ Exists(c.fs, c.path)
                    THEN Event("pdf_added", "success", asset.id)
                    ELSE Event("pdf_add_failed", "fail", asset.id)>>]
    ELSE [fs |-> d.fs, calls |-> <<Call("download_asset", asset)>>,
          pdfs |-> <<>>, events |-> d.events]

\* main.py lines 179-195: one turn of the loop over unique_attachments
ProcessAttachment ==
    /\ pc = "process"
    /\ idx <= Len(attachment_map)
    /\ LET asset == attachment_map[idx].asset
           first_ticket == FirstTicket(ticket_rows, asset)
           item_dir == ItemDir(first_ticket.item_id)
           converted_dir == ConvertedDir(first_ticket.item_id)
       IN  \E net \in {"ok", "fail"} :
           \E o \in StrategyOutcomes(Strategy(NormalizeExt(asset.file_extension), TRUE, FALSE)) :
              LET r == AfterDownload(asset, download_asset(asset, item_dir, files, net),
                                     converted_dir,
                                     dirs \cup {item_dir, converted_dir}, o)
              IN  /\ dirs' = dirs \cup {item_dir, converted_dir}
                  /\ files' = r.fs
                  /\ calls' = calls \o r.calls
                  /\ item_pdfs' = item_pdfs \o r.pdfs
                  /\ events' = events \o r.events
    /\ idx' = idx + 1
    /\ pc' = pc
    /\ UNCHANGED <<dry_run, max_items, clientVars, error, all_items,
                   indexVars, verifyVars, conv, dl, layout, reportVars>>

\* the output directory args.out
OutDir == <<"out", "">>
SummaryPdf == JoinPath(OutDir, <<"s","u","m","m","a","r","y",".","p","d","f">>)
OutputPdf == JoinPath(OutDir, <<"R","e","s","o","l","v","e","d",".","p","d","f">>)
ExcelPath == JoinPath(OutDir, <<"S","u","m","m","a","r","y",".","x","l","s","x">>)

\* a count an artifact shows is <<n>>, one it leaves out is <<>>
Shown(n) == <<n>>
NotShown == <<>>

RECURSIVE SumLen(_)
\* sum(len(x) for x in seqs)
SumLen(seqs) == IF seqs = <<>> THEN 0 ELSE Len(Head(seqs)) + SumLen(Tail(seqs))

\* sum(len(t.attachments) for t in tickets), on ticket rows and on the dicts of
\* the workbook alike
TotalAttachments(tickets) == SumLen([i \in DOMAIN tickets |-> tickets[i].attachments])

\* pdf_utils.py lines 14-20 and 50-57: the counts drawn on the summary pages
SummaryStats(tickets, map) ==
    [written |-> TRUE,
     tickets |-> Len(tickets),
     unique  |-> IF map # <<>> THEN Shown(Len(map)) ELSE NotShown,
     saved   |-> IF map # <<>> THEN Shown(TotalAttachments(tickets) - Len(map))
                 ELSE NotShown,
     shared  |-> IF map # <<>> /\ SharedAttachments(map) # <<>>
                 THEN Shown(Len(SharedAttachments(map))) ELSE NotShown]

\* main.py lines 197-199, after the loop: generate_summary_page writes the
\* summary document, or raises (the output directory cannot be written)
Summary ==
    /\ pc = "process"
    /\ idx > Len(attachment_map)
    /\ \/ /\ files' = WriteFile(files, SummaryPdf, "summary")
          /\ summary_stats' = SummaryStats(ticket_rows, attachment_map)
          /\ events' = Append(events, Event("summary_page", "success", None))
          /\ pc' = "merge"
          /\ error' = error
          /\ UNCHANGED locals
       \/ /\ Raise("OSError")
          /\ UNCHANGED <<files, events, summary_stats>>
    /\ UNCHANGED <<dry_run, max_items, clientVars, dirs, calls, conv, dl, layout, merged,
                   workbook_stats>>

\* a document PdfReader may fail to read: one copied as downloaded
MayBeCorrupt(fs, path) == ContentOf(fs, path) = "copied"

\* a merge that only notes the document it cannot read and lets main go on
Merge_masking_failure ==
    /\ pc = "merge"
    /\ \/ /\ files' = WriteFile(files, OutputPdf, "merged")
          /\ merged' = <<SummaryPdf>> \o item_pdfs
          /\ events' = Append(events, Event("merge", "success", None))
          /\ error' = error
       \/ /\ \E k \in DOMAIN item_pdfs : MayBeCorrupt(files, item_pdfs[k])
          /\ error' = "PdfReadError"
          /\ UNCHANGED <<files, events, merged>>
    /\ pc' = "excel"
    /\ UNCHANGED <<locals, dry_run, max_items, clientVars, dirs, calls, conv, dl, layout,
                   summary_stats, workbook_stats>>

\* main.py lines 207-210: merge_pdfs
Merge ==
    /\ pc = "merge"
    /\ \/ /\ files' = WriteFile(files, OutputPdf, "merged")
          /\ merged' = <<SummaryPdf>> \o item_pdfs
          /\ events' = Append(events, Event("merge", "success", None))
          /\ pc' = "excel"
          /\ error' = error
          /\ UNCHANGED locals
       \/ /\ \E k \in DOMAIN item_pdfs : MayBeCorrupt(files, item_pdfs[k])
          /\ Raise("PdfReadError")
          /\ UNCHANGED <<files, events, merged>>
    /\ UNCHANGED <<dry_run, max_items, clientVars, dirs, calls, conv, dl, layout,
                   summary_stats, workbook_stats>>

\* main.py lines 218-229: the dicts handed to the workbook
ExcelTickets(rows) ==
    [i \in DOMAIN rows |->
        [name |-> rows[i].item_name, id |-> rows[i].item_id,
         attachments |-> [k \in DOMAIN rows[i].attachments |-> rows[i].attachments[k].name]]]

\* a Summary sheet that counts the references to the shared files, not the files
WorkbookStats_counting_references(tickets, shared_attachments, unique_attachments_count) ==
    [written |-> TRUE,
     tickets |-> Len(tickets),
     total   |-> TotalAttachments(tickets),
     unique  |-> Shown(unique_attachments_count),
     removed |-> Shown(TotalAttachments(tickets) - unique_attachments_count),
     shared  |-> IF shared_attachments # <<>>
                 THEN Shown(SumLen([k \in DOMAIN shared_attachments |->
                                       shared_attachments[k].tickets]))
                 ELSE NotShown]

\* excel_utils.py lines 94-104: the counts of the Summary sheet
WorkbookStats(tickets, shared_attachments, unique_attachments_count) ==
    [written |-> TRUE,
     tickets |-> Len(tickets),
     total   |-> TotalAttachments(tickets),
     unique  |-> Shown(unique_attachments_count),
     removed |-> Shown(TotalAttachments(tickets) - unique_attachments_count),
     shared  |-> IF shared_attachments # <<>>
                 THEN Shown(Len(shared_attachments)) ELSE NotShown]

\* main.py lines 212-247: the workbook, an exception of which is only printed
Excel ==
    /\ pc = "excel"
    /\ \/ /\ files' = WriteFile(files, ExcelPath, "workbook")
          /\ dirs' = dirs \cup {OutDir}
          /\ workbook_stats' = WorkbookStats(ExcelTickets(ticket_rows),
                                             SharedAttachments(attachment_map),
                                             Len(attachment_map))
       \/ UNCHANGED <<files, dirs, workbook_stats>>
    /\ pc' = "verify_first"
    /\ UNCHANGED <<dry_run, max_items, clientVars, error, all_items,
                   indexVars, idx, item_pdfs, events, calls, verifyVars, conv, dl, layout,
                   merged, summary_stats>>


(***************************************************************************)
(* verify_all_tickets_found.                                               *)
(***************************************************************************)
\* main.py lines 19-21
VerifyFirstPage ==
    /\ pc = "verify_first"
    /\ \E o \in Outcomes :
        \/ AttemptFails(o)
        \/ /\ AttemptReturns(o)
           /\ \E page \in Pages(MaxVerifyFetched), cursor \in BOOLEAN :
                /\ v_items' = page
                /\ pc' = IF cursor THEN "verify_next" ELSE "verify_check"
           /\ UNCHANGED <<error, all_items, indexVars, idx, item_pdfs, missing>>
    /\ UNCHANGED <<dry_run, max_items, disk, conv, dl, layout, reportVars>>

\* main.py lines 23-27: one turn of the loop
VerifyNextPage ==
    /\ pc = "verify_next"
    /\ \E o \in Outcomes :
        \/ AttemptFails(o)
        \/ /\ AttemptReturns(o)
           /\ \E page \in Pages(MaxVerifyFetched - Len(v_items)), cursor \in BOOLEAN :
                /\ v_items' = v_items \o page
                /\ pc' = IF cursor THEN "verify_next" ELSE "verify_check"
           /\ UNCHANGED <<error, all_items, indexVars, idx, item_pdfs, missing>>
    /\ UNCHANGED <<dry_run, max_items, disk, conv, dl, layout, reportVars>>

\* a reference set that takes the items without attachments too
ResolvedForMonth_ignoring_assets(items) ==
    {items[i].id : i \in {j \in DOMAIN items :
        StatusMatches(items[j]) /\ MonthMatches(items[j])}}

\* main.py lines 31-52: the identifiers of resolved_for_month
ResolvedForMonth(items) ==
    {items[i].id : i \in {j \in DOMAIN items :
        StatusMatches(items[j]) /\ MonthMatches(items[j]) /\ HasAssets(items[j])}}

\* main.py line 54 on the dicts of filtered_items
FoundIds(found_tickets) == {found_tickets[i].id : i \in DOMAIN found_tickets}

\* a verification that ends the run with an error when a ticket is missing
VerifyCheck_blocking ==
    /\ pc = "verify_check"
    /\ IF dry_run /\ Len(ticket_rows) > 0
       THEN Raise("TypeError")
       ELSE /\ missing' = ResolvedForMonth(v_items) \ FoundIds(filtered_items)
            /\ pc' = IF missing' # {} THEN "aborted" ELSE "done"
            /\ error' = IF missing' # {} THEN "MissingTickets" ELSE error
            /\ UNCHANGED <<all_items, indexVars, idx, item_pdfs, v_items>>
    /\ UNCHANGED <<dry_run, max_items, clientVars, disk, conv, dl, layout, reportVars>>

\* main.py lines 29-69.  The dry run passes ticket_rows (main.py line 170):
\* t['id'] on a TicketRow raises TypeError as soon as there is one
VerifyCheck ==
    /\ pc = "verify_check"
    /\ IF dry_run /\ Len(ticket_rows) > 0
       THEN Raise("TypeError")
       ELSE /\ missing' = ResolvedForMonth(v_items) \ FoundIds(filtered_items)
            /\ pc' = "done"
            /\ UNCHANGED <<error, all_items, indexVars, idx, item_pdfs, v_items>>
    /\ UNCHANGED <<dry_run, max_items, clientVars, disk, conv, dl, layout, reportVars>>

Next ==
    \/ GetStatusColumn
    \/ GetItemsPage
    \/ NextItemsPage
    \/ Filter
    \/ Index
    \/ DryRun
    \/ ProcessAttachment
    \/ Summary
    \/ Merge
    \/ Excel
    \/ VerifyFirstPage
    \/ VerifyNextPage
    \/ VerifyCheck

Spec == Init /\ [][Next]_vars

(***************************************************************************)
(* to_pdf on its own: every argument drawn from a small set.               *)
(***************************************************************************)
InputPath == JoinPath(ItemDir("1"), <<"1","1","-","r","_","p","d","f",".","p","d","f">>)

ExtSamples ==
    {<<"p","d","f">>, <<"P","D","F">>, <<".","d","o","c","x">>, <<"x","l","s","x">>,
     <<"t","x","t">>, <<"J","p","g">>, <<"w","e","b","p">>, <<"h","t","m","l">>,
     <<"z","i","p">>, <<>>}

InitConvert ==
    /\ pc = "to_pdf"
    /\ dry_run = FALSE
    /\ max_items = 0
    /\ attempt = 0
    /\ last_outcome = "none"
    /\ error = "none"
    /\ all_items = <<>>
    /\ filtered_items = <<>>
    /\ ticket_rows = <<>>
    /\ attachment_map = <<>>
    /\ idx = 1
    /\ item_pdfs = <<>>
    /\ files \in {{}, {[path |-> InputPath, content |-> "downloaded"]}}
    /\ dirs \in {{}, {ConvertedDir("1")}}
    /\ events = <<>>
    /\ calls = <<>>
    /\ v_items = <<>>
    /\ missing = {}
    /\ \E path_in \in {None, InputPath}, ext \in ExtSamples,
          prefer_libreoffice \in BOOLEAN, html_enabled \in BOOLEAN :
          conv = [stage |-> "called", path_in |-> path_in, ext |-> ext,
                  prefer_libreoffice |-> prefer_libreoffice,
                  html_enabled |-> html_enabled, input_exists |-> Exists(files, path_in)]
    /\ dl = NoDownload
    /\ merged = <<>>
    /\ summary_stats = NoStats
    /\ workbook_stats = NoStats
    /\ layout = NoLayout

Convert ==
    /\ pc = "to_pdf"
    /\ conv.stage = "called"
    /\ \E o \in StrategyOutcomes(Strategy(NormalizeExt(conv.ext), conv.prefer_libreoffice,
                                          conv.html_enabled)) :
          LET r == to_pdf(conv.path_in, conv.ext, ConvertedDir("1"),
                          conv.prefer_libreoffice, conv.html_enabled, files, dirs, o)
          IN  /\ conv' = [conv EXCEPT !.stage = IF r.raised THEN "raised" ELSE "returned"]
                            @@ [outcome |-> o, path |-> r.path]
              /\ files' = r.fs
              /\ events' = events \o r.events
    /\ pc' = "returned"
    /\ UNCHANGED <<dry_run, max_items, clientVars, error, all_items,
                   indexVars, idx, item_pdfs, dirs, calls, verifyVars, dl, layout,
                   reportVars>>

NextConvert == Convert

SpecConvert == InitConvert /\ [][NextConvert]_vars


(***************************************************************************)
(* The index of a list of items on its own: all_items drawn from the       *)
(* sequences of at most MaxIndexed items of any board.                     *)
(***************************************************************************)
InitIndex ==
    /\ pc = "filter"
    /\ dry_run \in BOOLEAN
    /\ max_items \in 0..MaxItemsCfg
    /\ attempt = 0
    /\ last_outcome = "none"
    /\ error = "none"
    /\ all_items \in ItemSeqs(AnyItems, MaxIndexed)
    /\ filtered_items = <<>>
    /\ ticket_rows = <<>>
    /\ attachment_map = <<>>
    /\ idx = 1
    /\ item_pdfs = <<>>
    /\ files = {}
    /\ dirs = {}
    /\ events = <<>>
    /\ calls = <<>>
    /\ v_items = <<>>
    /\ missing = {}
    /\ conv = NoConv
    /\ dl = NoDownload
    /\ merged = <<>>
    /\ summary_stats = NoStats
    /\ workbook_stats = NoStats
    /\ layout = NoLayout

NextIndex == Filter \/ Index

SpecIndex == InitIndex /\ [][NextIndex]_vars

(***************************************************************************)
(* download_asset on its own: some calls for one attachment and one        *)
(* directory, which holds nothing, the file of a former run, or the file   *)
(* of another attachment.                                                  *)
(***************************************************************************)
MaxDownloadCalls == 2

\* the attachments of the catalogue
DownloadAssets == UNION {Range(item.assets) : item \in AnyItems}

DownloadDirs == {ItemDir("1"), ItemDir("2")}

DestPath(asset, out_dir) == JoinPath(out_dir, DownloadFilename(asset))

InitDownload ==
    /\ pc = "download_asset"
    /\ dry_run = FALSE
    /\ max_items = 0
    /\ attempt = 0
    /\ last_outcome = "none"
    /\ error = "none"
    /\ all_items = <<>>
    /\ filtered_items = <<>>
    /\ ticket_rows = <<>>
    /\ attachment_map = <<>>
    /\ idx = 1
    /\ item_pdfs = <<>>
    /\ dirs = {}
    /\ events = <<>>
    /\ calls = <<>>
    /\ v_items = <<>>
    /\ missing = {}
    /\ conv = NoConv
    /\ merged = <<>>
    /\ summary_stats = NoStats
    /\ workbook_stats = NoStats
    /\ layout = NoLayout
    /\ \E asset \in DownloadAssets, out_dir \in DownloadDirs :
         /\ files \in {{}, {[path |-> DestPath(asset, out_dir), content |-> "former"]},
                        {[path |-> JoinPath(out_dir, <<"o","t","h","e","r">>),
                          content |-> "former"]}}
         /\ dl = [stage |-> "called", asset |-> asset, out_dir |-> out_dir,
                  calls |-> 0, downloads |-> 0]

\* one call of download_asset(asset, out_dir)
Download ==
    /\ pc = "download_asset"
    /\ dl.stage # "none"
    /\ dl.calls < MaxDownloadCalls
    /\ \E net \in {"ok", "fail"} :
         LET r == download_asset(dl.asset, dl.out_dir, files, net)
             path == DestPath(dl.asset, dl.out_dir)
         IN  /\ files' = r.fs
             /\ events' = events \o r.events
             /\ dl' = [stage |-> "returned", asset |-> dl.asset, out_dir |-> dl.out_dir,
                       calls |-> dl.calls + 1,
                       downloads |-> dl.downloads +
                           (IF r.requested /\ r.path # None THEN 1 ELSE 0),
                       existed |-> Exists(files, path),
                       content_before |-> IF Exists(files, path)
                                          THEN ContentOf(files, path) ELSE "absent",
                       requested |-> r.requested,
                       path |-> r.path]
    /\ UNCHANGED <<pc, dry_run, max_items, clientVars, error, all_items, indexVars,
                   idx, item_pdfs, dirs, calls, verifyVars, conv, reportVars,
                   layout>>

NextDownload == Download

SpecDownload == InitDownload /\ [][NextDownload]_vars

(***************************************************************************)
(* generate_summary_page on its own: the vertical position of every line   *)
(* it draws, for a number of tickets and an index (or none) whose shared   *)
(* attachments and their referencing tickets are drawn one by one.  A      *)
(* position is in points from the bottom of the page; showPage starts a    *)
(* new page.                                                               *)
(***************************************************************************)
\* the most tickets of a summary
MaxTickets == 40
\* the most shared attachments of the appendix
MaxSharedFiles == 3
\* the most tickets that reference one shared attachment
MaxRefs == 20

\* pdf_utils.py lines 23 and 29: the header and the first row
HeaderY(has_map) == IF has_map THEN 710 ELSE 720
RowHeight == 18
RowFloor == 50
RowTop == 760

\* pdf_utils.py lines 58-69: the appendix
AppendixTop == 750
FileHeight == 15
RefHeight == 12
FileGap == 5
AppendixFloor == 80
AppendixNewPageTop == 780

InitLayout ==
    /\ pc = "generate_summary_page"
    /\ dry_run = FALSE
    /\ max_items = 0
    /\ attempt = 0
    /\ last_outcome = "none"
    /\ error = "none"
    /\ all_items = <<>>
    /\ filtered_items = <<>>
    /\ ticket_rows = <<>>
    /\ attachment_map = <<>>
    /\ idx = 1
    /\ item_pdfs = <<>>
    /\ files = {}
    /\ dirs = {}
    /\ events = <<>>
    /\ calls = <<>>
    /\ v_items = <<>>
    /\ missing = {}
    /\ conv = NoConv
    /\ dl = NoDownload
    /\ merged = <<>>
    /\ summary_stats = NoStats
    /\ workbook_stats = NoStats
    /\ \E n \in 0..MaxTickets, has_map \in BOOLEAN :
         layout = [stage |-> "rows", tickets |-> n, has_map |-> has_map,
                   y |-> HeaderY(has_map) - 20, page |-> 1, last_y |-> HeaderY(has_map)]

\* generate_summary_page is at work; it has no part in the rest of the state
LayoutFrame ==
    /\ pc = "generate_summary_page"
    /\ UNCHANGED <<pc, dry_run, max_items, clientVars, error, all_items, indexVars,
                   outputVars, verifyVars, conv, dl, reportVars>>

\* pdf_utils.py lines 31-47: one ticket row
DrawTicketRow ==
    /\ LayoutFrame
    /\ layout.stage = "rows"
    /\ layout.tickets > 0
    /\ layout' = [layout EXCEPT
                     !.tickets = @ - 1,
                     !.last_y = layout.y,
                     !.y = IF layout.y - RowHeight < RowFloor THEN RowTop
                           ELSE layout.y - RowHeight,
                     !.page = IF layout.y - RowHeight < RowFloor THEN @ + 1 ELSE @]

\* pdf_utils.py lines 50-58: after the rows, the appendix when the index has
\* shared attachments (shared of them), or none
StartAppendix ==
    /\ LayoutFrame
    /\ layout.stage = "rows"
    /\ layout.tickets = 0
    /\ \E shared \in 0..MaxSharedFiles :
         IF layout.has_map /\ shared > 0
         THEN layout' = [stage |-> "appendix", files_left |-> shared, refs_left |-> 0,
                         y |-> AppendixTop, page |-> layout.page + 1, last_y |-> 780]
         ELSE layout' = [stage |-> "saved", page |-> layout.page,
                         last_y |-> layout.last_y]

\* pdf_utils.py lines 60-62: the name of a shared attachment, which refs
\* tickets reference
DrawSharedFile ==
    /\ LayoutFrame
    /\ layout.stage = "appendix"
    /\ layout.files_left > 0
    /\ \E refs \in 2..MaxRefs :
         layout' = [layout EXCEPT !.stage = "refs", !.refs_left = refs,
                                  !.last_y = layout.y, !.y = layout.y - FileHeight]

\* pdf_utils.py lines 63-69: one referencing ticket; after the last one of the
\* attachment the gap, and a new page when the position is under the floor
DrawReference ==
    /\ LayoutFrame
    /\ layout.stage = "refs"
    /\ LET y == layout.y - RefHeight
           after == y - FileGap
       IN  IF layout.refs_left > 1
           THEN layout' = [layout EXCEPT !.refs_left = @ - 1, !.last_y = layout.y,
                                         !.y = y]
           ELSE layout' = [layout EXCEPT
                             !.stage = "appendix", !.refs_left = 0,
                             !.files_left = @ - 1,
                             !.last_y = layout.y,
                             !.y = IF after < AppendixFloor THEN AppendixNewPageTop
                                   ELSE after,
                             !.page = IF after < AppendixFloor THEN @ + 1 ELSE @]

\* pdf_utils.py line 71: c.save()
SaveSummary ==
    /\ LayoutFrame
    /\ layout.stage = "appendix"
    /\ layout.files_left = 0
    /\ layout' = [stage |-> "saved", page |-> layout.page, last_y |-> layout.last_y]

NextLayout ==
    \/ DrawTicketRow
    \/ StartAppendix
    \/ DrawSharedFile
    \/ DrawReference
    \/ SaveSummary

SpecLayout == InitLayout /\ [][NextLayout]_vars

(***************************************************************************)
(* Properties.                                                             *)
(***************************************************************************)
\* the loop of main.py line 179 has ended in a run that is not a dry run
Processed == ~dry_run /\ pc \in {"merge", "excel", "verify_first", "verify_next",
                                 "verify_check", "done"}

\* the converted document of the attachment of an index entry
ConvertedPathOf(entry) ==
    LET dir == FirstTicket(ticket_rows, entry.asset).item_id
    IN  PdfPath(JoinPath(ItemDir(dir), DownloadFilename(entry.asset)), ConvertedDir(dir))

Count(seq, x) == Cardinality({i \in DOMAIN seq : seq[i] = x})

\* C1: in a run that is not a dry run, once the loop over the unique
\* attachments has ended, item_pdfs holds exactly one converted document per
\* entry of the attachment index, whether its download or conversion failed
\* or not.
C1_OneDocumentPerUniqueAttachment ==
    Processed =>
        /\ Len(item_pdfs) = Len(attachment_map)
        /\ \A k \in DOMAIN attachment_map :
              Count(item_pdfs, ConvertedPathOf(attachment_map[k])) = 1

\* the downloads of the run that failed (files.py line 23)
FailedDownloads ==
    {i \in DOMAIN events : events[i].action = "download" /\ events[i].status = "fail"}

NoDuplicateIds(items) == \A i, j \in DOMAIN items : items[i].id = items[j].id => i = j

\* C6: after the paginated retrieval each item identifier is at most once in
\* all_items, and so in filtered_items and ticket_rows.
C6_NoDuplicateItems ==
    pc \in {"filter", "index", "dry_run", "process", "merge", "excel"} =>
        /\ NoDuplicateIds(all_items)
        /\ NoDuplicateIds(filtered_items)
        /\ \A i, j \in DOMAIN ticket_rows :
              ticket_rows[i].item_id = ticket_rows[j].item_id => i = j

\* C8: a graphql call makes at most 5 attempts, and an attempt whose response
\* holds an "errors" field ends the call (and the run) at once.
C8_AtMostFiveAttemptsNoRetryOnErrors ==
    /\ attempt <= 5
    /\ last_outcome = "errors_field" => pc = "aborted" /\ error = "Exception"

C8_Witness ==
    pc = "aborted" /\ last_outcome = "errors_field" /\ attempt = 1 /\ error = "Exception"

ReportFiles == {SummaryPdf, OutputPdf, ExcelPath}

\* C9: an attempt that fails with a transient condition (an HTTP error
\* status, a timeout, a connection failure) before the fifth is followed by
\* another attempt; only these are re-attempted; and a run a failed call ends
\* has written no report file.
C9_TransientFailuresAreRetried ==
    /\ (last_outcome \in {"http_status_error", "timeout", "connect_error"} /\ attempt < 5)
          => pc # "aborted"
    /\ (pc # "aborted" /\ attempt > 0)
          => last_outcome \in {"http_status_error", "timeout", "connect_error"}
    /\ (pc = "aborted" /\ last_outcome # "none")
          => \A path \in ReportFiles : ~Exists(files, path)


RECURSIVE Sum(_)
Sum(nums) == IF nums = <<>> THEN 0 ELSE Head(nums) + Sum(Tail(nums))

\* the index has been built (main.py line 155 is reached)
Indexed == pc \in {"dry_run", "process"}

\* the (identifier, name) pairs and the names of the attachments of an item
KeysOf(item) == {<<item.assets[k].id, item.assets[k].name>> : k \in DOMAIN item.assets}
NamesOf(item) == {item.assets[k].name : k \in DOMAIN item.assets}
AllNames(items) == UNION {NamesOf(items[i]) : i \in DOMAIN items}

\* the references of the index, and those of the ticket rows (main.py line 177)
IndexRefs == Sum([k \in DOMAIN attachment_map |-> Len(attachment_map[k].tickets)])
TotalRefs == Sum([i \in DOMAIN ticket_rows |-> Len(ticket_rows[i].attachments)])

\* C3: once the index is built, its reference lists hold as many references as
\* the filtered items hold distinct (identifier, name) pairs, item by item; it
\* has one entry per distinct attachment name; and every attachment of every
\* item is under exactly one entry, that of its name.
C3_IndexCountsReferences ==
    Indexed =>
        /\ IndexRefs = Sum([i \in DOMAIN filtered_items |->
                               Cardinality(KeysOf(filtered_items[i]))])
        /\ Len(attachment_map) = Cardinality(AllNames(filtered_items))
        /\ \A i \in DOMAIN filtered_items : \A name \in NamesOf(filtered_items[i]) :
              Cardinality({k \in DOMAIN attachment_map : attachment_map[k].name = name}) = 1

C3_Witness ==
    /\ Indexed
    /\ \E i \in DOMAIN filtered_items :
          Cardinality(KeysOf(filtered_items[i])) < Len(filtered_items[i].assets)
    /\ \E k \in DOMAIN attachment_map : Len(attachment_map[k].tickets) > 1
    /\ Len(attachment_map) >= 2

\* an attachment name is held by two items of the filtered list
NameRepeatsAcrossItems ==
    \E i, j \in DOMAIN filtered_items :
        i # j /\ NamesOf(filtered_items[i]) \cap NamesOf(filtered_items[j]) # {}

\* an item of the filtered list holds two attachments of one name under two
\* identifiers
NameRepeatsWithinAnItem ==
    \E i \in DOMAIN filtered_items : \E a, b \in KeysOf(filtered_items[i]) :
        a # b /\ a[2] = b[2]

\* C4 as stated: the unique attachments are at most the attachment references,
\* and as many if and only if no attachment name repeats across items.
C4_EqualIffNoRepeatAcrossItems ==
    Indexed =>
        /\ Len(attachment_map) <= TotalRefs
        /\ Len(attachment_map) = TotalRefs <=> ~NameRepeatsAcrossItems

\* C4 as amended: the unique attachments are at most the attachment
\* references, and as many if and only if no attachment name repeats, neither
\* across items nor within one item under two identifiers.
C4_EqualIffNoRepeat ==
    Indexed =>
        /\ Len(attachment_map) <= TotalRefs
        /\ Len(attachment_map) = TotalRefs
              <=> ~NameRepeatsAcrossItems /\ ~NameRepeatsWithinAnItem

C4_Witness ==
    /\ Indexed
    /\ NameRepeatsWithinAnItem
    /\ ~NameRepeatsAcrossItems
    /\ Len(attachment_map) < TotalRefs

\* C5: with every item once in the list, an attachment is reported as shared
\* if and only if more than one item holds its name, and no item is twice in a
\* reference list.
C5_SharedIffSeveralItems ==
    (Indexed /\ NoDuplicateIds(filtered_items)) =>
        \A k \in DOMAIN attachment_map :
            /\ (\E j \in DOMAIN SharedAttachments(attachment_map) :
                    SharedAttachments(attachment_map)[j].name = attachment_map[k].name)
               <=> Cardinality({i \in DOMAIN filtered_items :
                        attachment_map[k].name \in NamesOf(filtered_items[i])}) > 1
            /\ \A i \in DOMAIN filtered_items :
                   Count(attachment_map[k].tickets, filtered_items[i].name) <= 1

\* the three conditions of the filter
Qualifies(item) ==
    /\ Lower(item.status) = Lower(StatusLabelRequired)
    /\ Contains(Month, item.date)
    /\ Len(item.assets) >= 1

Qualifying(items) == SelectSeq(items, Qualifies)

Prefix(seq, n) == SubSeq(seq, 1, IF n < Len(seq) THEN n ELSE Len(seq))

\* the filter of main.py lines 100-124 has run
Filtered == pc \in {"index", "dry_run", "process"}

\* C7 as stated: in every run the filtered list is exactly the subsequence of
\* the retrieved items that qualify, in retrieval order.
C7_FilterIsTheQualifyingSubsequence ==
    Filtered => filtered_items = Qualifying(all_items)

\* C7 as amended: the filtered list is the subsequence of the retrieved items
\* that qualify, in retrieval order, cut to its first max_items items in a dry
\* run whose configuration sets max_items.
C7_FilterIsTheQualifyingSubsequenceUpToLimit ==
    Filtered =>
        filtered_items = IF dry_run /\ max_items > 0
                         THEN Prefix(Qualifying(all_items), max_items)
                         ELSE Qualifying(all_items)

C7_Witness ==
    /\ Filtered
    /\ dry_run
    /\ max_items = 1
    /\ Len(Qualifying(all_items)) >= 2
    /\ Len(all_items) > Len(Qualifying(all_items))
    /\ filtered_items = <<Qualifying(all_items)[1]>>

\* C10: to_pdf raises nothing; for an input file that exists it returns a path
\* at which a converted document or a placeholder is, whatever the extension
\* and however the strategy ends; it returns no path only when the input file
\* does not exist.
C10_ToPdfAlwaysYieldsADocument ==
    /\ conv.stage # "raised"
    /\ conv.stage = "returned" =>
          IF conv.input_exists
          THEN /\ conv.path # None
               /\ Exists(files, conv.path)
               /\ ContentOf(files, conv.path) \in
                     {"converted", "copied", "placeholder_unsupported", "placeholder_failed"}
               /\ conv.outcome \in {"process_failure", "timeout", "missing_tool"} =>
                     ContentOf(files, conv.path) = "placeholder_failed"
          ELSE conv.path = None

\* merge_pdfs has written the output and main still runs
Merged == ~dry_run /\ pc \in {"excel", "verify_first", "verify_next", "verify_check", "done"}

\* C11: the merged document is the summary document followed by the converted
\* document of every entry of the attachment index, one each, in the order of
\* the index (first occurrence over the items in retrieval order, the
\* attachments of an item in their order); its pages are then those of the
\* summary plus those of every converted document.
C11_MergedIsSummaryThenOnePerAttachment ==
    Merged =>
        /\ Len(merged) = 1 + Len(attachment_map)
        /\ merged[1] = SummaryPdf
        /\ \A k \in DOMAIN attachment_map :
              merged[k + 1] = ConvertedPathOf(attachment_map[k])

\* C12: a document merge_pdfs cannot read ends the run at the merge: the
\* exception is the run's error, no merged document and no workbook is
\* written, and no call of the verification pass is made.
C12_MergeFailureIsFatal ==
    error = "PdfReadError" =>
        /\ pc = "aborted"
        /\ merged = <<>>
        /\ ~Exists(files, OutputPdf)
        /\ ~Exists(files, ExcelPath)
        /\ workbook_stats = NoStats
        /\ attempt = 0 /\ last_outcome = "none"

C12_Witness ==
    /\ pc = "aborted"
    /\ error = "PdfReadError"
    /\ Exists(files, SummaryPdf)
    /\ \E f \in files : f.content = "copied"

\* C13: a call of download_asset that finds the destination file makes no
\* request, leaves the file as it is and returns its path; over the calls made
\* for one attachment at most one downloads the file, and whenever a path is
\* returned the file is there.
C13_DownloadIsIdempotent ==
    dl.stage = "returned" =>
        /\ dl.existed =>
              /\ ~dl.requested
              /\ dl.path = DestPath(dl.asset, dl.out_dir)
              /\ ContentOf(files, dl.path) = dl.content_before
        /\ dl.downloads <= 1
        /\ dl.path # None => Exists(files, dl.path)

C13_Witness ==
    /\ dl.stage = "returned"
    /\ dl.calls = 2
    /\ dl.downloads = 1
    /\ dl.existed
    /\ ~dl.requested
    /\ dl.content_before = "downloaded"

\* C14: no step of a dry run downloads, converts, draws the summary, merges
\* or writes the workbook, and none makes a directory or writes a file: the
\* files and directories stay those the run found.
C14_DryRunWritesNothing ==
    [][dry_run =>
          /\ files' = files
          /\ dirs' = dirs
          /\ calls' = calls
          /\ merged' = merged
          /\ summary_stats' = summary_stats
          /\ workbook_stats' = workbook_stats
          /\ pc' \notin {"process", "merge", "excel"}]_vars

C14_Witness ==
    /\ dry_run
    /\ pc = "verify_check"
    /\ Len(attachment_map) >= 2
    /\ files = {}
    /\ dirs = {}
    /\ calls = <<>>

\* C15: a dry run ends abnormally only when a query or the look-up of the
\* status label failed: when retrieval succeeds it filters, runs the
\* verification pass to its comparison and terminates normally, however many
\* tickets match.
C15_DryRunVerifiesAndTerminates ==
    (dry_run /\ pc = "aborted") => (last_outcome # "none" \/ error = "ValueError")

\* the status and the month of an item are those of the report
MatchesMonthAndStatus(item) ==
    Lower(item.status) = Lower(StatusLabelRequired) /\ Contains(Month, item.date)

\* the identifiers of the processed tickets
ProcessedIds == {filtered_items[i].id : i \in DOMAIN filtered_items}

Verifying == ~dry_run /\ pc \in {"verify_first", "verify_next", "verify_check", "done"}

\* a step of the verification pass leaves the output as it is
VerificationKeepsOutput ==
    pc \in {"verify_first", "verify_next", "verify_check"} =>
        (/\ files' = files
         /\ dirs' = dirs
         /\ merged' = merged
         /\ summary_stats' = summary_stats
         /\ workbook_stats' = workbook_stats)

\* C17: the verification pass of a real run starts once the summary and the
\* merged document are written and the workbook export is over; a missing
\* identifier is only reported, the run ending normally; and no step of the
\* pass changes a file, a directory, the merged document or the counts of the
\* summary and of the workbook.
C17_VerificationLeavesOutputAlone ==
    /\ [](Verifying => /\ Exists(files, SummaryPdf)
                       /\ Exists(files, OutputPdf)
                       /\ merged # <<>>)
    /\ [](missing # {} => pc = "done" /\ error = "none")
    /\ [][VerificationKeepsOutput]_vars

C17_Witness ==
    /\ ~dry_run
    /\ pc = "done"
    /\ missing # {}
    /\ Exists(files, OutputPdf)
    /\ Exists(files, ExcelPath)
    /\ workbook_stats # NoStats

\* the events of an action
EventsOf(action) == {i \in DOMAIN events : events[i].action = action}
\* the calls of a function
CallsOf(fn) == {i \in DOMAIN calls : calls[i].fn = fn}

\* C18: there is one download event per call of download_asset, the calls
\* that find the file included, one convert event per call of to_pdf, one
\* summary_page event once the summary is drawn or has failed, and one merge
\* event once the merge is done or has failed.
C18_OneEventPerAction ==
    /\ Cardinality(EventsOf("download")) = Cardinality(CallsOf("download_asset"))
    /\ Cardinality(EventsOf("convert")) = Cardinality(CallsOf("to_pdf"))
    /\ Cardinality(EventsOf("summary_page")) =
          IF summary_stats.written \/ error = "OSError" THEN 1 ELSE 0
    /\ Cardinality(EventsOf("merge")) =
          IF merged # <<>> \/ error = "PdfReadError" THEN 1 ELSE 0

\* the value of a count of an artifact, one it leaves out being zero
CountOf(shown) == IF shown = NotShown THEN 0 ELSE shown[1]

\* C19: once the summary pages and the workbook of a run are both written,
\* they show the same number of tickets, of unique attachments, of duplicates
\* saved and of shared attachments (a count an artifact leaves out being zero
\* in the other); and the duplicates saved, the attachment references less the
\* unique attachments, are the sum over the index of the length of each
\* reference list less one.
C19_WorkbookAndSummaryAgree ==
    (summary_stats.written /\ workbook_stats.written) =>
        /\ summary_stats.tickets = workbook_stats.tickets
        /\ CountOf(summary_stats.unique) = CountOf(workbook_stats.unique)
        /\ CountOf(summary_stats.saved) = CountOf(workbook_stats.removed)
        /\ CountOf(summary_stats.shared) = CountOf(workbook_stats.shared)
        /\ CountOf(workbook_stats.removed) =
              workbook_stats.total - CountOf(workbook_stats.unique)
        /\ pc # "aborted" =>
              /\ CountOf(workbook_stats.removed) =
                    Sum([k \in DOMAIN attachment_map |->
                            Len(attachment_map[k].tickets) - 1])
              /\ CountOf(workbook_stats.shared) =
                    Cardinality({k \in DOMAIN attachment_map :
                                    Len(attachment_map[k].tickets) > 1})

C19_Witness ==
    /\ summary_stats.written
    /\ workbook_stats.written
    /\ pc = "done"
    /\ summary_stats.tickets >= 2
    /\ CountOf(summary_stats.saved) >= 1
    /\ CountOf(workbook_stats.shared) >= 1

\* the file download_asset writes for the attachment of an index entry
\* (main.py lines 181-187)
DownloadPathOf(entry) ==
    JoinPath(ItemDir(FirstTicket(ticket_rows, entry.asset).item_id),
             DownloadFilename(entry.asset))

\* C20: two entries of the attachment index have different download paths and
\* different converted-document paths, and no converted document is written
\* where a download is.
C20_DistinctPathsPerAttachment ==
    Indexed =>
        \A k, l \in DOMAIN attachment_map :
            /\ k # l => /\ DownloadPathOf(attachment_map[k]) # DownloadPathOf(attachment_map[l])
                        /\ ConvertedPathOf(attachment_map[k]) #
                              ConvertedPathOf(attachment_map[l])
            /\ ConvertedPathOf(attachment_map[k]) # DownloadPathOf(attachment_map[l])

C20_Witness ==
    /\ Indexed
    /\ \E k, l \in DOMAIN attachment_map :
          /\ k # l
          /\ sanitize_filename(attachment_map[k].name) = sanitize_filename(attachment_map[l].name)
          /\ FirstTicket(ticket_rows, attachment_map[k].asset).item_id =
                FirstTicket(ticket_rows, attachment_map[l].asset).item_id
          /\ DownloadPathOf(attachment_map[k]) # DownloadPathOf(attachment_map[l])

\* C21: every line generate_summary_page draws, a ticket row, the name of a
\* shared attachment or one of its referencing tickets, is drawn at a vertical
\* position of 0 or more.
C21_EveryLineInsideThePage ==
    layout.stage # "none" => layout.last_y >= 0

====
